---- MODULE Spec2Model ----
(***************************************************************************)
(* Obfuscation / recovery experiment engine of quantum-obfuscation:        *)
(* src/simulation.py (build_circuit_with_gate, simulate_circuit,           *)
(* run_baseline_simulation, run_obfuscation_simulation), the expected      *)
(* distributions of src/main.py, and the statistics functions of           *)
(* src/analyze.py (total_variation_distance, dominant_state_percentile).   *)
(*                                                                         *)
(* A bit string (a key of a counts dict) is a sequence over {0, 1}; its    *)
(* first element is the leftmost character of the Python string.  A dict   *)
(* is a function whose domain is its key set.                              *)
(***************************************************************************)
EXTENDS FiniteSets, Integers, Sequences, TLC

VARIABLES
    num_shots,            \* argument num_shots
    obfuscation_interval, \* argument obfuscation_interval (shots per trial)
    gate_num_qubits,      \* gate.num_qubits of the argument gate
    static,               \* argument static
    pc,                   \* position of the run: "start", "attempt", "fold", "done", "raised"
    trial_idx,            \* the trial loop variable (number of trials folded so far)
    attempt,              \* the retry loop variable
    start_idx,            \* the offset drawn by the latest attempt
    qc,                   \* the circuit composed by the latest attempt
    counts,               \* the counts returned by the latest successful executor call
    res,                  \* raw aggregate
    recovered_res,        \* recovered aggregate
    returned,             \* <<>> until the run returns, then <<dict(res), dict(recovered_res)>>
    error,                \* exception that left the run: "None", "ValueError", "ExecutionError"
    exec_shots,           \* shots the latest attempt passed to simulate_circuit (0: it made no call)
    call,                 \* a call of one function on its own: its arguments and result
    fold                  \* per-trial results and their fold steps: [pool, pending, order]

vars == <<call, fold, num_shots, obfuscation_interval, gate_num_qubits, static, pc, trial_idx,
          attempt, start_idx, qc, counts, res, recovered_res, returned, error,
          exec_shots>>

----------------------------------------------------------------------------
(* Bounds of the model *)

MaxShots == 3
MaxInterval == 2
MaxTrials == 2
MaxWidth == 4

(* Program constants *)

NumQubits == 10
BaselineStart == 3
StaticStart == 3
MaxRandStart == 7
max_retries == 10
GateWidth == 3

----------------------------------------------------------------------------
(* Dicts and bit strings *)

EmptyDict == <<>>

Reverse(s) == [i \in 1..Len(s) |-> s[Len(s) + 1 - i]]

RECURSIVE SumCounts(_)
SumCounts(d) ==
    IF DOMAIN d = {} THEN 0
    ELSE LET k == CHOOSE x \in DOMAIN d : TRUE
         IN d[k] + SumCounts([x \in DOMAIN d \ {k} |-> d[x]])

\* d.get(key, 0); also the value a defaultdict(int) reads at key
Get(d, key) == IF key \in DOMAIN d THEN d[key] ELSE 0

\* mutant of AddCount: d[k] = c
AddCount_Assign(d, k, c) == (k :> c) @@ d

\* d[k] += c on a defaultdict(int)
AddCount(d, k, c) ==
    IF k \in DOMAIN d THEN [d EXCEPT ![k] = @ + c] ELSE d @@ (k :> c)

----------------------------------------------------------------------------
(* Circuit Composer *)

\* mutant of Fits: >= in place of >
Fits_OffByOne(num_qubits, start_index, width) ==
    ~(start_index < 0 \/ start_index + width >= num_qubits)

Fits(num_qubits, start_index, width) ==
    ~(start_index < 0 \/ start_index + width > num_qubits)

Op(name, qubits, gen) == [op |-> name, qubits |-> qubits, gen |-> gen]

NoCircuit == [num_qubits |-> 0, num_clbits |-> 0, ops |-> <<>>]

\* build_circuit_with_gate: raises ValueError, or returns the circuit
build_circuit_with_gate(num_qubits, width, start_index, measure) ==
    IF ~Fits(num_qubits, start_index, width)
    THEN [raises |-> "ValueError", value |-> NoCircuit]
    ELSE [raises |-> "None",
          value |->
             [num_qubits |-> num_qubits,
              num_clbits |-> IF measure THEN num_qubits ELSE 0,
              ops |-> <<Op("gate", start_index..(start_index + width - 1), <<>>)>>
                      \o (IF measure THEN <<Op("measure", 0..(num_qubits - 1), <<>>)>>
                          ELSE <<>>)]]

\* qc.compose(random_circuit(num_qubits = |qubits|, ...), qubits, inplace=True);
\* gen names the attempt whose random_circuit call generated the fragment
ComposeFiller(circ, qubits, gen) ==
    [circ EXCEPT !.ops = @ \o <<Op("filler", qubits, gen)>>]

\* qc.measure_all(): a new classical register, one bit per qubit
MeasureAll(circ) ==
    [circ EXCEPT !.num_clbits = @ + circ.num_qubits,
                 !.ops = @ \o <<Op("measure", 0..(circ.num_qubits - 1), <<>>)>>]

\* mutant of ComposeAttempt: the filler is generated once per trial, before the
\* retry loop, and reused by every attempt
ComposeAttempt_StaleFiller(s, width, gen) ==
    LET c0 == build_circuit_with_gate(NumQubits, width, s, FALSE).value
        c1 == IF s > 0 THEN ComposeFiller(c0, 0..(s - 1), <<gen[1], 0>>) ELSE c0
        end_idx == s + width
        c2 == IF end_idx < NumQubits
              THEN ComposeFiller(c1, end_idx..(NumQubits - 1), <<gen[1], 0>>) ELSE c1
    IN MeasureAll(c2)

\* mutant of ComposeAttempt: the filler after the block starts one qubit early,
\* on the last qubit of the block
ComposeAttempt_OverlapFiller(s, width, gen) ==
    LET c0 == build_circuit_with_gate(NumQubits, width, s, FALSE).value
        c1 == IF s > 0 THEN ComposeFiller(c0, 0..(s - 1), gen) ELSE c0
        end_idx == s + width - 1
        c2 == IF end_idx < NumQubits
              THEN ComposeFiller(c1, end_idx..(NumQubits - 1), gen) ELSE c1
    IN MeasureAll(c2)

\* the try body up to the executor call, for a placement that fits
ComposeAttempt(s, width, gen) ==
    LET c0 == build_circuit_with_gate(NumQubits, width, s, FALSE).value
        c1 == IF s > 0 THEN ComposeFiller(c0, 0..(s - 1), gen) ELSE c0
        end_idx == s + width
        c2 == IF end_idx < NumQubits
              THEN ComposeFiller(c1, end_idx..(NumQubits - 1), gen) ELSE c1
    IN MeasureAll(c2)

----------------------------------------------------------------------------
(* Quantum executor (external): simulate_circuit *)

\* The key get_counts gives one shot: the classical bit of qubit 0 is the
\* rightmost character, so character j (from 1) is the bit of qubit n - j.
MeasureString(n, qubit_bits) == [j \in 1..n |-> qubit_bits[n - j]]

GateQubits(circ) == circ.ops[1].qubits

FillerQubits(circ) ==
    UNION {circ.ops[i].qubits : i \in {j \in 1..Len(circ.ops) : circ.ops[j].op = "filler"}}

\* Bit a shot may give the qubits under filler.
FillBits == {1}

\* One shot of circ: the block qubits hold pattern (first element: lowest block
\* qubit), the qubits under filler hold fill, and a qubit no operation acts on
\* stays in the ground state.
ShotOutcome(circ, pattern, fill) ==
    LET lo == CHOOSE q \in GateQubits(circ) : \A r \in GateQubits(circ) : q <= r
    IN MeasureString(circ.num_qubits,
           [q \in 0..(circ.num_qubits - 1) |->
               IF q \in GateQubits(circ) THEN pattern[q - lo + 1]
               ELSE IF q \in FillerQubits(circ) THEN fill
               ELSE 0])

\* The two block values the executor samples: only the lowest block qubit 1,
\* and every block qubit 1.
LowPattern(width) == [i \in 1..width |-> IF i = 1 THEN 1 ELSE 0]
OnesPattern(width) == [i \in 1..width |-> 1]

\* The counts a successful simulate_circuit(circ, shots) may return: k shots on
\* the first block value and the other shots - k on the second; they sum to shots.
ExecResults(circ, shots) ==
    LET width == Cardinality(GateQubits(circ))
    IN UNION {{IF k = shots THEN (a :> shots) ELSE (a :> k) @@ (b :> (shots - k)) :
                  k \in 1..shots} :
              <<a, b>> \in {<<ShotOutcome(circ, LowPattern(width), f),
                              ShotOutcome(circ, OnesPattern(width), f)>> : f \in FillBits}}

----------------------------------------------------------------------------
(* Experiment Runner: run_obfuscation_simulation *)

\* mutant of num_trials: the remainder gets a trial of its own
num_trials_Ceil == (num_shots + obfuscation_interval - 1) \div obfuscation_interval

num_trials == num_shots \div obfuscation_interval

\* start_idx = 3 if static else random.randint(0, 7)
DrawStart == IF static THEN {StaticStart} ELSE 0..MaxRandStart

\* mutant of ResultBits: the outcome string is indexed without being reversed
ResultBits_NoReverse(outcome, s, width) ==
    [i \in 1..width |-> outcome[s + (i - 1) + 1]]

\* bits = outcome[::-1]; result_bits = bits[start_idx + i] for i in range(w)
ResultBits(outcome, s, width) ==
    LET bits == Reverse(outcome)
    IN [i \in 1..width |-> bits[s + (i - 1) + 1]]

\* '0000' + result_bits + '000'
RecoveredKey(outcome, s, width) ==
    <<0, 0, 0, 0>> \o ResultBits(outcome, s, width) \o <<0, 0, 0>>

\* mutant of FoldCounts: recovered_res is rebuilt from the outcome at hand
RECURSIVE FoldCounts_ResetRecovered(_, _, _, _)
FoldCounts_ResetRecovered(agg, cnt, s, width) ==
    IF DOMAIN cnt = {} THEN agg
    ELSE LET outcome == CHOOSE x \in DOMAIN cnt : TRUE
             count == cnt[outcome]
             rest == [x \in DOMAIN cnt \ {outcome} |-> cnt[x]]
         IN FoldCounts_ResetRecovered(
                <<AddCount(agg[1], outcome, count),
                  (RecoveredKey(outcome, s, width) :> count)>>,
                rest, s, width)

\* the loop over counts.items() of one trial, on the pair <<res, recovered_res>>
RECURSIVE FoldCounts(_, _, _, _)
FoldCounts(agg, cnt, s, width) ==
    IF DOMAIN cnt = {} THEN agg
    ELSE LET outcome == CHOOSE x \in DOMAIN cnt : TRUE
             count == cnt[outcome]
             rest == [x \in DOMAIN cnt \ {outcome} |-> cnt[x]]
         IN FoldCounts(<<AddCount(agg[1], outcome, count),
                         AddCount(agg[2], RecoveredKey(outcome, s, width), count)>>,
                       rest, s, width)

NoCall == [fn |-> "none", args |-> <<>>, done |-> FALSE, result |-> <<>>]

NoFold == [pool |-> <<>>, pending |-> {}, order |-> <<>>]

Init ==
    /\ num_shots \in 0..MaxShots
    /\ obfuscation_interval \in 1..MaxInterval
    /\ num_shots \div obfuscation_interval <= MaxTrials
    /\ gate_num_qubits \in GateWidth..MaxWidth
    /\ static \in BOOLEAN
    /\ pc = "start"
    /\ trial_idx = 0
    /\ attempt = 0
    /\ start_idx = -1       \* not bound yet
    /\ qc = NoCircuit       \* not bound yet
    /\ counts = EmptyDict   \* not bound yet
    /\ res = EmptyDict
    /\ recovered_res = EmptyDict
    /\ returned = <<>>
    /\ error = "None"
    /\ exec_shots = 0
    /\ call = NoCall
    /\ fold = NoFold

\* for trial_idx in range(num_trials), with t trials done: enter the retry loop
\* of trial t, or leave the loop and return (dict(res), dict(recovered_res))
EnterTrialOrReturn(t) ==
    IF t < num_trials
    THEN /\ pc' = "attempt"
         /\ attempt' = 0
         /\ returned' = returned
    ELSE /\ pc' = "done"
         /\ attempt' = attempt
         /\ returned' = <<res', recovered_res'>>

\* the run starts: the aggregates are empty and num_trials is computed
Begin ==
    /\ pc = "start"
    /\ UNCHANGED <<call, fold, num_shots, obfuscation_interval, gate_num_qubits, static,
                   trial_idx, start_idx, qc, counts, res, recovered_res, error,
                   exec_shots>>
    /\ EnterTrialOrReturn(0)

\* mutant of Except: the last failure is swallowed and the trial is started over
Except_Swallow(e) ==
    IF attempt = max_retries - 1
    THEN /\ pc' = "attempt"
         /\ error' = error
         /\ attempt' = 0
    ELSE /\ pc' = "attempt"
         /\ error' = error
         /\ attempt' = attempt + 1

\* mutant of Except: the handler leaves the retry loop, so the trial goes on to
\* the fold with the counts bound before
Except_FoldsStale(e) ==
    /\ pc' = "fold"
    /\ error' = error
    /\ attempt' = attempt

\* except BaseException as e: re-raise on the last attempt, else continue
Except(e) ==
    IF attempt = max_retries - 1
    THEN /\ pc' = "raised"
         /\ error' = e
         /\ attempt' = attempt
    ELSE /\ pc' = "attempt"
         /\ error' = error
         /\ attempt' = attempt + 1

\* simulate_circuit(qc, shots=obfuscation_interval) is called
CallExecutor == exec_shots' = obfuscation_interval

\* the attempt ends before its simulate_circuit call
NoExecutorCall == exec_shots' = 0

\* an attempt whose placement build_circuit_with_gate rejects
AttemptInvalid ==
    /\ pc = "attempt"
    /\ \E s \in DrawStart :
          /\ build_circuit_with_gate(NumQubits, gate_num_qubits, s, FALSE).raises = "ValueError"
          /\ start_idx' = s
    /\ NoExecutorCall
    /\ Except("ValueError")
    /\ UNCHANGED <<call, fold, num_shots, obfuscation_interval, gate_num_qubits, static, trial_idx,
                   qc, counts, res, recovered_res, returned>>

\* an attempt whose executor call fails
AttemptExecFails ==
    /\ pc = "attempt"
    /\ \E s \in DrawStart :
          /\ build_circuit_with_gate(NumQubits, gate_num_qubits, s, FALSE).raises = "None"
          /\ start_idx' = s
          /\ qc' = ComposeAttempt(s, gate_num_qubits, <<trial_idx, attempt>>)
    /\ CallExecutor
    /\ Except("ExecutionError")
    /\ UNCHANGED <<call, fold, num_shots, obfuscation_interval, gate_num_qubits, static, trial_idx,
                   counts, res, recovered_res, returned>>

\* an attempt whose executor call succeeds: break out of the retry loop
AttemptSucceeds ==
    /\ pc = "attempt"
    /\ \E s \in DrawStart :
          /\ build_circuit_with_gate(NumQubits, gate_num_qubits, s, FALSE).raises = "None"
          /\ start_idx' = s
          /\ qc' = ComposeAttempt(s, gate_num_qubits, <<trial_idx, attempt>>)
          /\ counts' \in ExecResults(qc', obfuscation_interval)
    /\ CallExecutor
    /\ pc' = "fold"
    /\ UNCHANGED <<call, fold, num_shots, obfuscation_interval, gate_num_qubits, static, trial_idx,
                   attempt, res, recovered_res, returned, error>>

\* process results after successful simulation, then the next trial or the return
Fold ==
    /\ pc = "fold"
    /\ LET agg == FoldCounts(<<res, recovered_res>>, counts, start_idx, gate_num_qubits)
       IN /\ res' = agg[1]
          /\ recovered_res' = agg[2]
    /\ trial_idx' = trial_idx + 1
    /\ EnterTrialOrReturn(trial_idx + 1)
    /\ UNCHANGED <<call, fold, num_shots, obfuscation_interval, gate_num_qubits, static,
                   start_idx, qc, counts, error, exec_shots>>

Next ==
    \/ Begin
    \/ AttemptInvalid
    \/ AttemptExecFails
    \/ AttemptSucceeds
    \/ Fold

Spec == Init /\ [][Next]_vars

\* Spec with the loop scheduled: a started run keeps taking steps
FairSpec == Spec /\ WF_vars(Next)

----------------------------------------------------------------------------
(* Properties of the run *)

Terminated == pc \in {"done", "raised"}

\* Steps the run can still take: Begin, and per trial not yet folded at most
\* max_retries attempts and Fold.
Rank ==
    LET per_trial == max_retries + 1
    IN CASE pc = "start"   -> num_trials * per_trial + 1
         [] pc = "attempt" -> (num_trials - trial_idx - 1) * per_trial
                              + (max_retries - attempt) + 1
         [] pc = "fold"    -> (num_trials - trial_idx - 1) * per_trial + 1
         [] OTHER          -> 0

\* C1: when the last of the max_retries attempts of a trial fails, the failure
\* of that attempt leaves the run; after that no trial is started, nothing more
\* is folded and the run has returned nothing, whatever was folded before.
C1_LastFailurePropagates ==
    (pc = "attempt" /\ attempt = max_retries - 1 /\ pc' # "fold")
        => /\ pc' = "raised"
           /\ error' = (IF Fits(NumQubits, start_idx', gate_num_qubits)
                        THEN "ExecutionError" ELSE "ValueError")
           /\ returned' = <<>>
C1_AbortedIsFinal ==
    pc = "raised" => (returned = <<>> /\ error # "None" /\ trial_idx < num_trials
                      /\ ~ENABLED Next)
C1_ExhaustionAborts == []C1_AbortedIsFinal /\ [][C1_LastFailurePropagates]_vars

\* C1 witness: a run aborted in its second trial, after a trial was folded
C1_Witness == pc = "raised" /\ trial_idx = 1 /\ SumCounts(res) > 0

\* C2: a trial makes at most max_retries attempts, each with at most one
\* executor call, and stops attempting at its first successful call; every
\* executor call runs a circuit placed at the offset drawn in that attempt, with
\* filler generated in that attempt, and every dynamic attempt draws afresh; at
\* most num_shots \div obfuscation_interval trials are run (hence at most that
\* many times max_retries executor calls); and the run always ends: it is never
\* stuck before it returned or aborted, and every step strictly lowers the
\* number of steps it can still take.
C2_Bounds ==
    /\ attempt \in 0..(max_retries - 1)
    /\ trial_idx <= num_shots \div obfuscation_interval
    /\ (pc \in {"attempt", "fold"} => trial_idx < num_shots \div obfuscation_interval)
    /\ Rank >= 0
    /\ (Terminated \/ ENABLED Next)
C2_Redraws ==
    (pc = "attempt" /\ ~static)
        => \A s \in 0..MaxRandStart : ENABLED (Next /\ start_idx' = s)
C2_FreshAttempt ==
    (pc = "attempt" /\ exec_shots' # 0)
        => /\ GateQubits(qc') = start_idx'..(start_idx' + gate_num_qubits - 1)
           /\ FillerQubits(qc') = (0..(NumQubits - 1)) \ GateQubits(qc')
           /\ \A i \in 1..Len(qc'.ops) :
                 qc'.ops[i].op = "filler" => qc'.ops[i].gen = <<trial_idx, attempt>>
C2_StopsAtSuccess ==
    /\ (pc = "attempt" /\ pc' = "fold") => (attempt' = attempt /\ exec_shots' # 0)
    /\ pc = "fold" => (pc' \in {"attempt", "done"} /\ trial_idx' = trial_idx + 1)
    /\ pc # "attempt" => exec_shots' = exec_shots
C2_BoundedRetry ==
    /\ [](C2_Bounds /\ C2_Redraws)
    /\ [][C2_FreshAttempt /\ C2_StopsAtSuccess /\ Rank' < Rank]_vars

\* C2 witness: a trial that succeeded on its last attempt
C2_Witness == pc = "fold" /\ attempt = max_retries - 1 /\ trial_idx = 1

\* every run that keeps taking steps ends
C2_EventuallyEnds == <>Terminated

\* C6: an invalid placement met while composing the circuit of an attempt fails
\* the run on that attempt and is not retried.
C6_InvalidPlacementNotRetried ==
    [][(pc = "attempt" /\ ~Fits(NumQubits, start_idx', gate_num_qubits))
          => (pc' = "raised" /\ exec_shots' = 0)]_vars

\* C7: static attempts use the baseline offset; the offsets a dynamic attempt
\* can draw are exactly the valid ones, 0..(NumQubits - width).
C7_DrawsValidOffsets ==
    /\ (start_idx # -1) =>
          IF static THEN start_idx = BaselineStart
          ELSE start_idx \in 0..(NumQubits - gate_num_qubits)
    /\ (pc = "attempt" /\ ~static) =>
          \A s \in 0..(NumQubits - gate_num_qubits) : ENABLED (Next /\ start_idx' = s)

\* C8: a run that returns has folded exactly num_shots \div obfuscation_interval
\* trials, every executor call asked for obfuscation_interval shots, and the
\* remainder is dropped without an error; a budget below the batch size
\* gives zero trials and two empty aggregates.
C8_TruncatedTrials ==
    /\ exec_shots \in {0, obfuscation_interval}
    /\ pc = "done" =>
          /\ trial_idx = num_shots \div obfuscation_interval
          /\ error = "None"
          /\ Len(returned) = 2
          /\ SumCounts(returned[1])
                = num_shots - (num_shots % obfuscation_interval)
          /\ (num_shots < obfuscation_interval
                => returned = <<EmptyDict, EmptyDict>>)

\* C8 witness: a returned run whose budget left a remainder
C8_Witness ==
    pc = "done" /\ num_shots % obfuscation_interval # 0 /\ trial_idx > 0

\* C9: after k trials are folded both aggregates sum to k * obfuscation_interval,
\* and no count of either aggregate decreases or disappears in any step.
C9_Totals ==
    /\ SumCounts(res) = trial_idx * obfuscation_interval
    /\ SumCounts(recovered_res) = trial_idx * obfuscation_interval
C9_Monotone ==
    /\ \A k \in DOMAIN res : k \in DOMAIN res' /\ res'[k] >= res[k]
    /\ \A k \in DOMAIN recovered_res :
          k \in DOMAIN recovered_res' /\ recovered_res'[k] >= recovered_res[k]
C9_Accumulates == []C9_Totals /\ [][C9_Monotone]_vars

\* C9 witness: two trials folded onto the same raw key
C9_Witness ==
    trial_idx = 2 /\ \E k \in DOMAIN res : res[k] = 2 * obfuscation_interval

\* indices of the filler operations of a circuit
FillerOps(circ) == {i \in 1..Len(circ.ops) : circ.ops[i].op = "filler"}

\* C14: in the circuit of every attempt, filler acts only on the qubits before
\* the placement window and on those after it, never on a qubit of the window;
\* a fragment exists only for a non-empty range (none before a block at 0, none
\* after a block that ends at the last qubit); and the fragments come before
\* the one final measurement of all qubits.  The window is where the attempt
\* drew it, and an attempt whose placement is rejected composes nothing.
C14_FillerOutsideWindow ==
    qc # NoCircuit =>
        LET g == GateQubits(qc)
            s == CHOOSE q \in g : \A r \in g : q <= r
            e == s + gate_num_qubits
            n == Len(qc.ops)
        IN /\ g = s..(e - 1)
           /\ \A i \in FillerOps(qc) :
                 /\ qc.ops[i].qubits # {}
                 /\ qc.ops[i].qubits \cap g = {}
                 /\ (qc.ops[i].qubits = 0..(s - 1)
                        \/ qc.ops[i].qubits = e..(NumQubits - 1))
                 /\ i < n
           /\ Cardinality(FillerOps(qc))
                 = (IF s > 0 THEN 1 ELSE 0) + (IF e < NumQubits THEN 1 ELSE 0)
           /\ FillerQubits(qc) = (0..(NumQubits - 1)) \ g
           /\ qc.ops[n] = Op("measure", 0..(NumQubits - 1), <<>>)
           /\ \A i \in 1..(n - 1) : qc.ops[i].op # "measure"
           /\ qc.num_clbits = NumQubits
C14_WindowAtDraw ==
    pc = "attempt" =>
        IF exec_shots' # 0
        THEN GateQubits(qc') = start_idx'..(start_idx' + gate_num_qubits - 1)
        ELSE qc' = qc
C14_FillerFrame == []C14_FillerOutsideWindow /\ [][C14_WindowAtDraw]_vars

\* C14 witness: a block that ends at the last qubit, with one fragment, before it
C14_Witness ==
    /\ pc = "fold"
    /\ start_idx + gate_num_qubits = NumQubits
    /\ Cardinality(FillerOps(qc)) = 1
    /\ FillerQubits(qc) = 0..(start_idx - 1)

\* the recovered key of a block value
BlockKey(pattern) == <<0, 0, 0, 0>> \o pattern \o <<0, 0, 0>>

\* C15: a trial is folded only right after its one successful attempt: the
\* counts folded are those the executor returned for the circuit of that
\* attempt, and the offset used for the extraction is the offset of that
\* circuit; an attempt that failed changes neither the counts nor an aggregate;
\* and the fold adds exactly these counts, read at this offset, so every
\* recovered key holds a block value the executor gave the block qubits.
C15_FoldInputsFromSuccess ==
    pc = "fold" =>
        /\ exec_shots = obfuscation_interval
        /\ counts \in ExecResults(qc, obfuscation_interval)
        /\ GateQubits(qc) = start_idx..(start_idx + gate_num_qubits - 1)
        /\ \A i \in FillerOps(qc) : qc.ops[i].gen = <<trial_idx, attempt>>
C15_RecoveredKeysAreBlockValues ==
    DOMAIN recovered_res \subseteq {BlockKey(LowPattern(gate_num_qubits)),
                                    BlockKey(OnesPattern(gate_num_qubits))}
C15_Steps ==
    /\ (pc = "attempt" /\ pc' = "fold") =>
          /\ exec_shots' # 0
          /\ counts' \in ExecResults(qc', obfuscation_interval)
          /\ GateQubits(qc') = start_idx'..(start_idx' + gate_num_qubits - 1)
    /\ (pc = "attempt" /\ pc' # "fold") =>
          /\ counts' = counts
          /\ res' = res
          /\ recovered_res' = recovered_res
          /\ trial_idx' = trial_idx
    /\ pc = "fold" =>
          /\ <<res', recovered_res'>>
                = FoldCounts(<<res, recovered_res>>, counts, start_idx, gate_num_qubits)
          /\ \A k \in DOMAIN counts : res'[k] = Get(res, k) + counts[k]
          /\ SumCounts(recovered_res') = SumCounts(recovered_res) + SumCounts(counts)
C15_SameAttempt ==
    /\ [](C15_FoldInputsFromSuccess /\ C15_RecoveredKeysAreBlockValues)
    /\ [][C15_Steps]_vars

\* C15 witness: the second trial is about to be folded after two or more of its
\* attempts failed, and its successful attempt drew another offset than the
\* trial before (no key of its counts is in the raw aggregate yet)
C15_Witness ==
    /\ pc = "fold"
    /\ trial_idx = 1
    /\ attempt >= 2
    /\ SumCounts(res) > 0
    /\ \A k \in DOMAIN counts : k \notin DOMAIN res

----------------------------------------------------------------------------
(* build_circuit_with_gate called on its own *)

MaxComposeQubits == 4

\* no run of run_obfuscation_simulation is in progress
RunIdle ==
    /\ num_shots = 0
    /\ obfuscation_interval = 1
    /\ static = TRUE
    /\ pc = "idle"
    /\ trial_idx = 0
    /\ attempt = 0
    /\ start_idx = -1
    /\ qc = NoCircuit
    /\ counts = EmptyDict
    /\ res = EmptyDict
    /\ recovered_res = EmptyDict
    /\ returned = <<>>
    /\ error = "None"
    /\ exec_shots = 0

runVars == <<num_shots, obfuscation_interval, gate_num_qubits, static, pc, trial_idx,
             attempt, start_idx, qc, counts, res, recovered_res, returned, error,
             exec_shots>>

InitCompose ==
    /\ RunIdle
    /\ gate_num_qubits \in 1..MaxWidth
    /\ fold = NoFold
    /\ \E n \in 0..MaxComposeQubits, s \in (-1)..(MaxComposeQubits + 1), m \in BOOLEAN :
          call = [fn |-> "build_circuit_with_gate",
                  args |-> [num_qubits |-> n, start_index |-> s, measure |-> m],
                  done |-> FALSE, result |-> <<>>]

\* build_circuit_with_gate(num_qubits, gate, start_index, measure)
CallBuild ==
    /\ call.fn = "build_circuit_with_gate"
    /\ ~call.done
    /\ call' = [call EXCEPT
                  !.done = TRUE,
                  !.result = build_circuit_with_gate(call.args.num_qubits, gate_num_qubits,
                                                     call.args.start_index,
                                                     call.args.measure)]
    /\ UNCHANGED <<fold, runVars>>

NextCompose == CallBuild

SpecCompose == InitCompose /\ [][NextCompose]_vars

\* C5: build_circuit_with_gate returns a circuit exactly when 0 <= start_index
\* and start_index + width <= num_qubits, and raises ValueError without a
\* circuit otherwise, whatever the measure flag is.
C5_ComposeValidates ==
    (call.fn = "build_circuit_with_gate" /\ call.done) =>
        LET a == call.args
            r == call.result
        IN IF 0 <= a.start_index /\ a.start_index + gate_num_qubits <= a.num_qubits
           THEN /\ r.raises = "None"
                /\ r.value.num_qubits = a.num_qubits
                /\ r.value.ops[1].op = "gate"
                /\ r.value.ops[1].qubits
                      = a.start_index..(a.start_index + gate_num_qubits - 1)
           ELSE /\ r.raises = "ValueError"
                /\ r.value = NoCircuit

\* C5 witness: the block ends exactly at the last qubit and is accepted
C5_Witness ==
    /\ call.fn = "build_circuit_with_gate" /\ call.done
    /\ call.args.start_index + gate_num_qubits = call.args.num_qubits
    /\ call.args.start_index > 0
    /\ call.args.measure
    /\ call.result.raises = "None"

----------------------------------------------------------------------------
(* The extraction of the recovered key, for two trials *)

\* Bits a shot may give the qubits outside the block, by qubit index
NonBlockFills == {"zeros", "ones", "even", "odd"}

FillBit(kind, q) ==
    CASE kind = "zeros" -> 0
      [] kind = "ones"  -> 1
      [] kind = "even"  -> IF q % 2 = 0 THEN 1 ELSE 0
      [] OTHER          -> IF q % 2 = 1 THEN 1 ELSE 0

AllBits(width) == [1..width -> {0, 1}]

\* The key of a shot of NumQubits measured qubits whose block, placed at s,
\* holds block_bits (first element: qubit s) and whose other qubits hold kind
TrialOutcome(s, block_bits, kind) ==
    MeasureString(NumQubits,
        [q \in 0..(NumQubits - 1) |->
            IF q \in s..(s + Len(block_bits) - 1) THEN block_bits[q - s + 1]
            ELSE FillBit(kind, q)])

InitExtract ==
    /\ RunIdle
    /\ gate_num_qubits = GateWidth
    /\ fold = NoFold
    /\ \E s1 \in 0..MaxRandStart, s2 \in 0..MaxRandStart,
          b \in AllBits(GateWidth), k1 \in NonBlockFills, k2 \in NonBlockFills :
          call = [fn |-> "recover",
                  args |-> [start_idx |-> <<s1, s2>>,
                            outcome |-> <<TrialOutcome(s1, b, k1),
                                          TrialOutcome(s2, b, k2)>>,
                            fill |-> <<k1, k2>>],
                  done |-> FALSE, result |-> <<>>]

\* the recovered keys of the two outcomes, each at its trial's start_idx
CallRecover ==
    /\ call.fn = "recover"
    /\ ~call.done
    /\ call' = [call EXCEPT
                  !.done = TRUE,
                  !.result = [t \in 1..2 |->
                                 RecoveredKey(call.args.outcome[t],
                                              call.args.start_idx[t],
                                              gate_num_qubits)]]
    /\ UNCHANGED <<fold, runVars>>

NextExtract == CallRecover

SpecExtract == InitExtract /\ [][NextExtract]_vars

\* the measured bit of qubit q in an outcome string
BitOfQubit(outcome, q) == outcome[Len(outcome) - q]

\* the string position (from 1) at which a baseline run, measuring qubit q into
\* classical bit q, holds the bit of qubit q
BaselinePosition(q) == NumQubits - q

\* C3: the recovered key holds the bit of block qubit start_idx + i at the
\* position where a baseline string holds the bit of qubit BaselineStart + i;
\* so for a static outcome whose other bits are '0' the recovered key is the
\* raw outcome string.
C3_SameBitOrder ==
    (call.fn = "recover" /\ call.done) =>
        \A t \in 1..2 :
            /\ \A i \in 0..(gate_num_qubits - 1) :
                  call.result[t][BaselinePosition(BaselineStart + i)]
                     = BitOfQubit(call.args.outcome[t], call.args.start_idx[t] + i)
            /\ (call.args.start_idx[t] = BaselineStart /\ call.args.fill[t] = "zeros")
                  => call.result[t] = call.args.outcome[t]

\* C4: two outcomes whose block qubits, in qubit order, hold the same bits have
\* the same recovered key, whatever the two offsets and the other bits are.
C4_PositionInvariant ==
    (call.fn = "recover" /\ call.done) =>
        LET blockbits(t) ==
                [i \in 1..gate_num_qubits |->
                    BitOfQubit(call.args.outcome[t], call.args.start_idx[t] + i - 1)]
        IN blockbits(1) = blockbits(2) => call.result[1] = call.result[2]

\* C4 witness: different offsets, different other bits, a block value that is
\* no palindrome
C4_Witness ==
    /\ call.fn = "recover" /\ call.done
    /\ call.args.start_idx = <<0, MaxRandStart>>
    /\ call.args.fill = <<"ones", "even">>
    /\ BitOfQubit(call.args.outcome[1], 0) = 1
    /\ BitOfQubit(call.args.outcome[1], 2) = 0
    /\ call.result[1] = call.result[2]

----------------------------------------------------------------------------
(* The per-trial fold step, taken in any order *)

MaxFoldTrials == 3
FoldShots == 2

\* start offsets of the per-trial results
FoldOffsets == {0, StaticStart}

\* the results one successful trial may hand to the fold step
TrialResults ==
    UNION {{[start_idx |-> s, counts |-> c] :
               c \in ExecResults(ComposeAttempt(s, GateWidth, <<>>), FoldShots)} :
           s \in FoldOffsets}

InitFold ==
    /\ num_shots = 0
    /\ obfuscation_interval = FoldShots
    /\ static = FALSE
    /\ pc = "idle"
    /\ trial_idx = 0
    /\ attempt = 0
    /\ start_idx = -1
    /\ qc = NoCircuit
    /\ counts = EmptyDict
    /\ res = EmptyDict
    /\ recovered_res = EmptyDict
    /\ returned = <<>>
    /\ error = "None"
    /\ exec_shots = 0
    /\ gate_num_qubits = GateWidth
    /\ call = NoCall
    /\ \E n \in 1..MaxFoldTrials :
          \E pool \in [1..n -> TrialResults] :
             fold = [pool |-> pool, pending |-> 1..n, order |-> <<>>]

\* one trial's fold step (the loop over counts.items()), taken as a whole for
\* any trial whose result is still pending
FoldTrial ==
    /\ fold.pending # {}
    /\ \E i \in fold.pending :
          /\ start_idx' = fold.pool[i].start_idx
          /\ counts' = fold.pool[i].counts
          /\ LET agg == FoldCounts(<<res, recovered_res>>, counts', start_idx',
                                   gate_num_qubits)
             IN /\ res' = agg[1]
                /\ recovered_res' = agg[2]
          /\ fold' = [fold EXCEPT !.pending = @ \ {i}, !.order = Append(@, i)]
    /\ trial_idx' = trial_idx + 1
    /\ UNCHANGED <<call, num_shots, obfuscation_interval, gate_num_qubits, static, pc,
                   attempt, qc, returned, error, exec_shots>>

NextFold == FoldTrial

SpecFold == InitFold /\ [][NextFold]_vars

\* the aggregates of the sequential run: results 1..n folded in index order
RECURSIVE SequentialFold(_, _)
SequentialFold(pool, n) ==
    IF n = 0 THEN <<EmptyDict, EmptyDict>>
    ELSE FoldCounts(SequentialFold(pool, n - 1), pool[n].counts, pool[n].start_idx,
                    GateWidth)

\* C10: once every per-trial result is folded, in whatever order the fold steps
\* were taken, the raw and the recovered aggregate equal, count for count, the
\* aggregates of folding the same results in index order.
C10_OrderIndependent ==
    (fold.pool # <<>> /\ fold.pending = {}) =>
        <<res, recovered_res>> = SequentialFold(fold.pool, Len(fold.pool))

\* C10 witness: three results, with different offsets and overlapping keys,
\* folded last first
C10_Witness ==
    /\ fold.pending = {}
    /\ fold.order = <<3, 1, 2>>
    /\ fold.pool[1].start_idx # fold.pool[3].start_idx
    /\ fold.pool[1].counts # fold.pool[2].counts
    /\ \E k \in DOMAIN recovered_res : recovered_res[k] > FoldShots
    /\ Cardinality(DOMAIN res) > 1

----------------------------------------------------------------------------
(* Python floats (IEEE 754 binary64, round to nearest, ties to even)        *)
(*                                                                          *)
(* A non-negative float x is the sequence <<l1, l2, l3, l4>> of base-2^20   *)
(* digits of the integer x * 2^58, most significant first.  Every float the *)
(* functions of analyze.py compute on the inputs drawn below is a multiple  *)
(* of 2^-58 below 2^15, so the representation is exact; an operation is the *)
(* exact operation followed by the rounding to 53 significant bits.         *)

Limb == 2^20

FloatZero == <<0, 0, 0, 0>>
FloatOne == <<0, 2^18, 0, 0>>

\* digits after carry propagation
Carry(l1, l2, l3, l4) ==
    LET c4 == l4 \div Limb
        c3 == (l3 + c4) \div Limb
        c2 == (l2 + c3) \div Limb
    IN <<l1 + c2, (l2 + c3) % Limb, (l3 + c4) % Limb, l4 % Limb>>

ExactAdd(x, y) == Carry(x[1] + y[1], x[2] + y[2], x[3] + y[3], x[4] + y[4])

\* x > y
FloatGreater(x, y) ==
    \E i \in 1..4 : x[i] > y[i] /\ \A j \in 1..(i - 1) : x[j] = y[j]

\* x - y for x >= y
ExactSub(x, y) ==
    LET b4 == IF x[4] < y[4] THEN 1 ELSE 0
        b3 == IF x[3] - b4 < y[3] THEN 1 ELSE 0
        b2 == IF x[2] - b3 < y[2] THEN 1 ELSE 0
    IN <<x[1] - b2 - y[1],
         x[2] - b3 - y[2] + b2 * Limb,
         x[3] - b4 - y[3] + b3 * Limb,
         x[4] - y[4] + b4 * Limb>>

\* index of the highest set bit of a digit h > 0
TopBit(h) == Cardinality({i \in 0..19 : h >= 2^i}) - 1

\* number of low bits of x * 2^58 beyond the 53 significant bits of a float
DroppedBits(x) ==
    IF x[1] # 0 THEN 8 + TopBit(x[1])
    ELSE IF x[2] >= 2^13 THEN TopBit(x[2]) - 12
    ELSE 0

\* the float nearest to x (ties to even); sticky: the exact value lies above x
\* by less than 2^-58
RoundToDouble(x, sticky) ==
    LET d == DroppedBits(x)
        U == 2^d
        r == x[4] % U
        kept == IF d = 20 THEN x[3] % 2 ELSE (x[4] \div U) % 2
        up == d >= 1 /\ (2 * r > U \/ (2 * r = U /\ (sticky \/ kept = 1)))
        trunc == <<x[1], x[2], x[3], x[4] - r>>
    IN IF up THEN ExactAdd(trunc, <<0, 0, U \div Limb, U % Limb>>) ELSE trunc

\* x + y
FloatAdd(x, y) == RoundToDouble(ExactAdd(x, y), FALSE)

\* abs(x - y)
FloatAbsDiff(x, y) ==
    RoundToDouble(IF FloatGreater(y, x) THEN ExactSub(y, x) ELSE ExactSub(x, y), FALSE)

\* c / n for ints 0 <= c < 2^13 and 0 < n < 2^11 (true division)
IntTrueDiv(c, n) ==
    LET n1 == (c * 2^18) \div Limb
        n2 == (c * 2^18) % Limb
        q1 == n1 \div n
        r1 == n1 % n
        q2 == (r1 * Limb + n2) \div n
        r2 == (r1 * Limb + n2) % n
        q3 == (r2 * Limb) \div n
        r3 == (r2 * Limb) % n
        q4 == (r3 * Limb) \div n
        r4 == (r3 * Limb) % n
    IN RoundToDouble(<<q1, q2, q3, q4>>, r4 # 0)

\* x * k for an int k >= 0
FloatTimesInt(x, k) ==
    RoundToDouble(Carry(x[1] * k, x[2] * k, x[3] * k, x[4] * k), FALSE)

\* 0.5 * x (exact)
FloatHalf(x) ==
    <<x[1] \div 2,
      x[2] \div 2 + (x[1] % 2) * (Limb \div 2),
      x[3] \div 2 + (x[2] % 2) * (Limb \div 2),
      x[4] \div 2 + (x[3] % 2) * (Limb \div 2)>>

----------------------------------------------------------------------------
(* Statistics Engine: total_variation_distance called on its own *)

MaxStatShots == 5

\* keys of the distributions handed to the statistics functions: the keys of
\* w_expected and grover_expected
StatKeys ==
    {<<0, 0, 0, 0>> \o b \o <<0, 0, 0>> :
        b \in {<<1, 0, 0>>, <<0, 1, 0>>, <<0, 0, 1>>, <<1, 1, 1>>}}

\* the counts dicts over StatKeys that hold total shots
CountsOf(total) ==
    {[k \in {j \in StatKeys : f[j] > 0} |-> f[k]] :
        f \in {g \in [StatKeys -> 0..total] : SumCounts(g) = total}}

\* mutant of AllKeys: the keys of counts only
AllKeys_CountsOnly(c, reference_counts) == DOMAIN c

\* all_keys = set(counts.keys()) | set(reference_counts.keys())
AllKeys(c, reference_counts) == DOMAIN c \cup DOMAIN reference_counts

\* The loop over all_keys and the return.  A set is iterated in an order the
\* caller does not control (string hashes differ between processes), so the
\* loop may take the keys in any order: the set of the runs it can make, each
\* with the order taken and the value returned.
RECURSIVE TvdRuns(_, _, _, _, _, _)
TvdRuns(tvd, order, remaining, c, reference_counts, n) ==
    IF remaining = {} THEN {[order |-> order, value |-> FloatHalf(tvd)]}
    ELSE UNION {LET p == IntTrueDiv(Get(c, key), n)
                    q == IntTrueDiv(Get(reference_counts, key), n)
                IN TvdRuns(FloatAdd(tvd, FloatAbsDiff(p, q)), Append(order, key),
                           remaining \ {key}, c, reference_counts, n) :
                key \in remaining}

total_variation_distance(c, reference_counts, n) ==
    TvdRuns(FloatZero, <<>>, AllKeys(c, reference_counts), c, reference_counts, n)

\* observed counts of at most n shots against reference counts of n shots
InitTvd ==
    /\ RunIdle
    /\ gate_num_qubits = GateWidth
    /\ fold = NoFold
    /\ \E n \in 1..MaxStatShots :
          \E t \in 0..n :
             \E a \in CountsOf(t), b \in CountsOf(n) :
                call = [fn |-> "total_variation_distance",
                        args |-> [counts |-> a, reference_counts |-> b, num_shots |-> n],
                        done |-> FALSE, result |-> <<>>]

\* total_variation_distance(counts, reference_counts, num_shots)
CallTvd ==
    /\ call.fn = "total_variation_distance"
    /\ ~call.done
    /\ \E run \in total_variation_distance(call.args.counts, call.args.reference_counts,
                                           call.args.num_shots) :
          call' = [call EXCEPT !.done = TRUE, !.result = run]
    /\ UNCHANGED <<fold, runVars>>

NextTvd == CallTvd

SpecTvd == InitTvd /\ [][NextTvd]_vars

\* C11: whatever the two distributions and the shot count are, the value
\* total_variation_distance returns lies in [0, 1].
C11_TvdInUnitInterval ==
    (call.fn = "total_variation_distance" /\ call.done) =>
        /\ ~FloatGreater(FloatZero, call.result.value)
        /\ ~FloatGreater(call.result.value, FloatOne)

\* C12: total_variation_distance returns 0 exactly when the two distributions
\* have the same count at every key of the union of their key sets, a key
\* absent from one of them counting as 0; so a distribution is at distance 0
\* from itself.
C12_ZeroIffSameCounts ==
    (call.fn = "total_variation_distance" /\ call.done) =>
        LET a == call.args.counts
            b == call.args.reference_counts
        IN /\ (call.result.value = FloatZero)
                 <=> (\A k \in DOMAIN a \cup DOMAIN b : Get(a, k) = Get(b, k))
           /\ (a = b => call.result.value = FloatZero)

\* C12 witness: a distribution of three keys compared with itself
C12_Witness ==
    /\ call.fn = "total_variation_distance" /\ call.done
    /\ call.args.counts = call.args.reference_counts
    /\ Cardinality(DOMAIN call.args.counts) = 3
    /\ call.result.value = FloatZero

----------------------------------------------------------------------------
(* Statistics Engine: dominant_state_percentile called for top_n = 1, 2, ... *)

MaxDomCount == 3
MaxTopN == 5

\* sorted(counts.values(), reverse=True)
RECURSIVE SortedValues(_)
SortedValues(d) ==
    IF DOMAIN d = {} THEN <<>>
    ELSE LET k == CHOOSE x \in DOMAIN d : \A y \in DOMAIN d : d[x] >= d[y]
         IN <<d[k]>> \o SortedValues([x \in DOMAIN d \ {k} |-> d[x]])

RECURSIVE SumSeq(_)
SumSeq(s) == IF s = <<>> THEN 0 ELSE Head(s) + SumSeq(Tail(s))

\* mutant of TopCounts: the slice [top_n:] in place of [:top_n]
TopCounts_Tail(sorted_counts, top_n) ==
    LET n == Len(sorted_counts)
        from == IF top_n >= 0 THEN (IF top_n < n THEN top_n ELSE n)
                ELSE (IF n + top_n > 0 THEN n + top_n ELSE 0)
    IN SumSeq(SubSeq(sorted_counts, from + 1, n))

\* sum(sorted_counts[:top_n])
TopCounts(sorted_counts, top_n) ==
    LET n == Len(sorted_counts)
        to == IF top_n >= 0 THEN (IF top_n < n THEN top_n ELSE n)
              ELSE (IF n + top_n > 0 THEN n + top_n ELSE 0)
    IN SumSeq(SubSeq(sorted_counts, 1, to))

dominant_state_percentile(c, n, top_n) ==
    LET sorted_counts == SortedValues(c)
        top_counts == TopCounts(sorted_counts, top_n)
    IN FloatTimesInt(IntTrueDiv(top_counts, n), 100)

\* the counts dicts over subsets of StatKeys with counts in 0..MaxDomCount
DomCounts == UNION {[K -> 0..MaxDomCount] : K \in SUBSET StatKeys}

InitDominant ==
    /\ RunIdle
    /\ gate_num_qubits = GateWidth
    /\ fold = NoFold
    /\ \E c \in DomCounts, n \in 1..MaxStatShots :
          call = [fn |-> "dominant_state_percentile",
                  args |-> [counts |-> c, num_shots |-> n],
                  done |-> FALSE, result |-> <<>>]

\* dominant_state_percentile(counts, num_shots, top_n) for the next top_n; the
\* result holds the values returned for top_n = 1, 2, ...
CallDominant ==
    /\ call.fn = "dominant_state_percentile"
    /\ ~call.done
    /\ LET top_n == Len(call.result) + 1
       IN call' = [call EXCEPT
                     !.result = Append(@, dominant_state_percentile(
                                              call.args.counts, call.args.num_shots, top_n)),
                     !.done = (top_n = MaxTopN)]
    /\ UNCHANGED <<fold, runVars>>

NextDominant == CallDominant

SpecDominant == InitDominant /\ [][NextDominant]_vars

\* C13: for non-negative counts and num_shots > 0 the value of
\* dominant_state_percentile does not decrease when top_n grows from 1 on, and
\* from top_n = number of keys on it stays at the value the function's formula
\* gives the sum of all counts, (sum / num_shots) * 100.
C13_MonotoneInTopN ==
    (call.fn = "dominant_state_percentile") =>
        /\ \A i \in 1..(Len(call.result) - 1) :
              ~FloatGreater(call.result[i], call.result[i + 1])
        /\ \A i \in 1..Len(call.result) :
              i >= Cardinality(DOMAIN call.args.counts)
                 => call.result[i]
                       = FloatTimesInt(IntTrueDiv(SumCounts(call.args.counts),
                                                  call.args.num_shots), 100)

\* C13 witness: three keys with positive counts; the value grows up to
\* top_n = 3 and stays there for the larger top_n
C13_Witness ==
    /\ call.fn = "dominant_state_percentile" /\ call.done
    /\ Cardinality(DOMAIN call.args.counts) = 3
    /\ FloatGreater(call.result[2], call.result[1])
    /\ FloatGreater(call.result[3], call.result[2])
    /\ call.result[MaxTopN] = call.result[3]
    /\ call.args.num_shots = SumCounts(call.args.counts)

====
